---- MODULE Spec2Model ----
(***************************************************************************)
(* The trading template (src/template2.py: Status, Strategy, Trade,        *)
(* Trader) and the backtest that replays order-book frames against it      *)
(* (src/backtest.py: the replay loop and calculate_pnl).                   *)
(*                                                                         *)
(* Representation.                                                         *)
(*  - A Python dict is a function on a finite set of keys.                 *)
(*  - A float that may be NaN is a sequence: <<>> is np.nan, <<v>> is the  *)
(*    number v.                                                            *)
(*  - mid prices and the PnL are halves of integers; the model keeps twice *)
(*    their value (mid2, pnl2), which is exact.                            *)
(*  - An EMA value is the exact rational <<numerator, denominator>> of the *)
(*    recurrence of Status.updates. The rounding of the doubles is not     *)
(*    modelled; the prices of the replayed books are chosen so that it     *)
(*    does not change any comparison of the two EMAs.                      *)
(*  - ret is what the last call returned or raised.                        *)
(***************************************************************************)
EXTENDS Integers, Sequences, FiniteSets, TLC

VARIABLES
    _state,               \* Status._state: the TradingState of the current tick
    _realtime_position,   \* Status._realtime_position
    _hist_order_depths,   \* Status._hist_order_depths
    _num_data,            \* Status._num_data
    ema_mid_35,           \* Status.ema_mid_35 of the instance of each product
    ema_mid_100,          \* Status.ema_mid_100 of the instance of each product
    ret,                  \* outcome of the last call: exception name and value
    pc,                   \* position of backtest.py
    state,                \* backtest.py: state, the TradingState built for the tick
    current_position,     \* backtest.py: current_position
    all_orders_placed,    \* backtest.py: all_orders_placed
    orders_dict,          \* backtest.py: orders_dict returned by trader.run
    last_state,           \* backtest.py: last_state
    final_pnl,            \* backtest.py: final_pnl, doubled
    seen                  \* history: per product, the number of cls_update calls whose frame held it

statusVars == <<_state, _realtime_position, _hist_order_depths, _num_data,
                ema_mid_35, ema_mid_100>>
backtestVars == <<pc, state, current_position, all_orders_placed, orders_dict,
                  last_state, final_pnl>>
vars == <<statusVars, backtestVars, ret, seen>>

----------------------------------------------------------------------------
(* Bounds of the exploration *)

\* frames applied (cls_update calls) in one behaviour
MaxTicks == 4
\* cls_update calls in one behaviour when the other Status calls interleave
MaxCalls == 1
\* how far beyond the limit the probed new_position values go
Over == 1
\* largest window size asked of hist_order_depth is the history length plus this
MaxExtraSize == 1
\* frames applied in one behaviour of the replay with an added strategy
MaxSlotTicks == 3
\* cls_update calls in one behaviour when the strategies are called directly
MaxStrategyTicks == 3

\* the products of Status._position_limit that the model instantiates
Products == {"SQUID_INK", "KELP"}

----------------------------------------------------------------------------
(* Arithmetic helpers *)

Abs(x) == IF x < 0 THEN -x ELSE x
Min2(a, b) == IF a <= b THEN a ELSE b
SetMax(S) == CHOOSE m \in S : \A y \in S : y <= m
SetMin(S) == CHOOSE m \in S : \A y \in S : m <= y

RECURSIVE SortedAsc(_)
SortedAsc(S) == IF S = {} THEN <<>> ELSE <<SetMin(S)>> \o SortedAsc(S \ {SetMin(S)})

RECURSIVE SortedDesc(_)
SortedDesc(S) == IF S = {} THEN <<>> ELSE <<SetMax(S)>> \o SortedDesc(S \ {SetMax(S)})

RECURSIVE Pow2Below(_, _)
\* the largest power of two p * 2^k that is <= x, for x >= p
Pow2Below(p, x) == IF 2 * p <= x THEN Pow2Below(2 * p, x) ELSE p

nan == <<>>
Num(v) == <<v>>
IsNan(e) == e = nan

\* np.float32 of an integer: exact up to 2^24, beyond it rounded to the 24-bit
\* significand, ties to even
Float32Int(v) ==
    LET a == Abs(v)
        ulp == Pow2Below(1, a) \div 8388608
        lo == IF ulp <= 1 THEN a ELSE (a \div ulp) * ulp
        r == a - lo
        up == IF ulp <= 1 THEN a
              ELSE IF 2 * r > ulp \/ (2 * r = ulp /\ (lo \div ulp) % 2 = 1) THEN lo + ulp
              ELSE lo
    IN  IF a < 16777216 THEN v ELSE IF v < 0 THEN -up ELSE up

Float32(e) == IF IsNan(e) THEN nan ELSE Num(Float32Int(e[1]))

\* a rational a/b >= c/d for a, c >= 0 and b, d > 0, by continued fractions: no
\* product is formed
RECURSIVE RatGE(_, _, _, _)
RatGE(a, b, c, d) ==
    LET qa == a \div b
        qc == c \div d
        ra == a % b
        rc == c % d
    IN  IF qa # qc THEN qa > qc
        ELSE IF rc = 0 THEN TRUE
        ELSE IF ra = 0 THEN FALSE
        ELSE RatGE(d, rc, b, ra)

\* x >= y and x < y for the rationals x = <<num, den>>, y = <<num, den>>, num >= 0
EmaGE(x, y) == RatGE(x[1], x[2], y[1], y[2])
EmaLT(x, y) == ~EmaGE(x, y)

----------------------------------------------------------------------------
(* Status: class-level data *)

_position_limit ==
    [p \in {"RAINFOREST_RESIN", "KELP", "SQUID_INK", "CROISSANTS", "JAMS",
            "DJEMBES", "PICNIC_BASKET1", "PICNIC_BASKET2"} |->
        CASE p = "RAINFOREST_RESIN" -> 50
          [] p = "KELP" -> 50
          [] p = "SQUID_INK" -> 50
          [] p = "CROISSANTS" -> 250
          [] p = "JAMS" -> 350
          [] p = "DJEMBES" -> 60
          [] p = "PICNIC_BASKET1" -> 60
          [] p = "PICNIC_BASKET2" -> 100]

\* the keys f'{type}{depth}' of _hist_order_depths[product], as pairs
SeriesTypes == {"bidprc", "bidamt", "askprc", "askamt"}
Depths == 1..3
SeriesKeys == SeriesTypes \X Depths

\* a value returned, and an exception raised
Returned(v) == [exc |-> "", val |-> v]
Raised(e) == [exc |-> e, val |-> <<>>]
None == <<>>

\* _state = None
NoState == [isNone |-> TRUE, order_depths |-> <<>>, position |-> <<>>]
TradingState(depths, pos) == [isNone |-> FALSE, order_depths |-> depths, position |-> pos]
OrderDepth(buys, sells) == [buy_orders |-> buys, sell_orders |-> sells]

----------------------------------------------------------------------------
(* Status: the book of the current tick *)

buy_orders(st, product) == st.order_depths[product].buy_orders
sell_orders(st, product) == st.order_depths[product].sell_orders

\* best_bid and best_ask call each other when their side is empty: with both
\* sides empty the calls never return and Python raises RecursionError
EmptyBook(st, product) ==
    DOMAIN buy_orders(st, product) = {} /\ DOMAIN sell_orders(st, product) = {}

RECURSIVE best_bid(_, _)
RECURSIVE best_ask(_, _)

\* the lowest bid taken for the best one
best_bid_lowest(st, product) ==
    IF DOMAIN buy_orders(st, product) # {}
    THEN SetMin(DOMAIN buy_orders(st, product))
    ELSE best_ask(st, product) - 1

best_bid(st, product) ==
    IF DOMAIN buy_orders(st, product) # {}
    THEN SetMax(DOMAIN buy_orders(st, product))
    ELSE best_ask(st, product) - 1

best_ask(st, product) ==
    IF DOMAIN sell_orders(st, product) # {}
    THEN SetMin(DOMAIN sell_orders(st, product))
    ELSE best_bid(st, product) + 1

\* twice Status.mid
mid2(st, product) == best_bid(st, product) + best_ask(st, product)

spread(st, product) == best_ask(st, product) - best_bid(st, product)

\* sorted(state.all_asks): the (price, amount) pairs by ascending price
all_asks_sorted(st, product) ==
    LET prices == SortedAsc(DOMAIN sell_orders(st, product))
    IN  [i \in 1..Len(prices) |-> <<prices[i], sell_orders(st, product)[prices[i]]>>]

worst_ask(st, product) ==
    IF DOMAIN sell_orders(st, product) # {}
    THEN SetMax(DOMAIN sell_orders(st, product))
    ELSE best_bid(st, product) + 1

\* best_bid_amount and best_ask_amount, for a side that has a level: max() and
\* min() of no keys raise ValueError
best_bid_amount(st, product) ==
    buy_orders(st, product)[SetMax(DOMAIN buy_orders(st, product))]

best_ask_amount(st, product) ==
    -sell_orders(st, product)[SetMin(DOMAIN sell_orders(st, product))]

\* maxamt_bidprc: the first price of the largest positive amount, 0 without
\* one. The dict is scanned as filled, which for the books of a frame is by
\* level, best price first.
maxamt_bidprc(st, product) ==
    LET buys == buy_orders(st, product)
        prices == SortedDesc(DOMAIN buys)
        larger == {i \in 1..Len(prices) : buys[prices[i]] > 0}
        max_amt == SetMax({buys[prices[i]] : i \in larger})
    IN  IF larger = {} THEN 0
        ELSE prices[SetMin({i \in larger : buys[prices[i]] = max_amt})]

\* maxamt_askprc: the first price of the most negative amount, 0 without one
maxamt_askprc(st, product) ==
    LET sells == sell_orders(st, product)
        prices == SortedAsc(DOMAIN sells)
        larger == {i \in 1..Len(prices) : sells[prices[i]] < 0}
        max_amt == SetMin({sells[prices[i]] : i \in larger})
    IN  IF larger = {} THEN 0
        ELSE prices[SetMin({i \in larger : sells[prices[i]] = max_amt})]

\* twice maxamt_midprc
maxamt_midprc2(st, product) == maxamt_bidprc(st, product) + maxamt_askprc(st, product)

\* what a read of self._state.order_depths[self.product] raises, "" when nothing
BookAccessError(st, product) ==
    IF st.isNone THEN "AttributeError"
    ELSE IF product \notin DOMAIN st.order_depths THEN "KeyError"
    ELSE ""

\* what evaluating best_bid, best_ask, mid or spread raises, "" when nothing
BookQueryError(st, product) ==
    IF BookAccessError(st, product) # "" THEN BookAccessError(st, product)
    ELSE IF EmptyBook(st, product) THEN "RecursionError"
    ELSE ""

----------------------------------------------------------------------------
(* Status: positions *)

position_limit(product) == _position_limit[product]

\* Status.position: the position the feed reports for the tick
position(st, product) ==
    IF product \in DOMAIN st.position THEN st.position[product] ELSE 0

rt_position(rt, product) == rt[product]

\* the room to buy from the realtime position alone
possible_buy_amt_realtime(st, rt, product) ==
    _position_limit[product] - rt_position(rt, product)

possible_buy_amt(st, rt, product) ==
    LET possible_buy_amount1 == _position_limit[product] - rt_position(rt, product)
        possible_buy_amount2 == _position_limit[product] - position(st, product)
    IN  Min2(possible_buy_amount1, possible_buy_amount2)

\* the room to sell from the position of the feed alone
possible_sell_amt_authoritative(st, rt, product) ==
    _position_limit[product] + position(st, product)

possible_sell_amt(st, rt, product) ==
    LET possible_sell_amount1 == _position_limit[product] + rt_position(rt, product)
        possible_sell_amount2 == _position_limit[product] + position(st, product)
    IN  Min2(possible_sell_amount1, possible_sell_amount2)

\* the limit test without abs: a short position is never rejected
rt_position_accepted_signed(product, new_position) ==
    new_position <= _position_limit[product]

\* _cls_rt_position_update: whether the new position is committed
rt_position_accepted(product, new_position) ==
    Abs(new_position) <= _position_limit[product]

\* a rejected position clamped to the limit instead of left alone
_cls_rt_position_update_clamped(rt, product, new_position) ==
    IF Abs(new_position) <= _position_limit[product]
    THEN [rt EXCEPT ![product] = new_position]
    ELSE [rt EXCEPT ![product] = IF new_position < 0 THEN -_position_limit[product]
                                 ELSE _position_limit[product]]

\* _cls_rt_position_update: the position map after the call
_cls_rt_position_update(rt, product, new_position) ==
    IF rt_position_accepted(product, new_position)
    THEN [rt EXCEPT ![product] = new_position]
    ELSE rt

----------------------------------------------------------------------------
(* Status: history *)

\* the bids taken in ascending order, as the asks are
HistEntry_ascending_bids(book, type, depth) ==
    LET asks == SortedAsc(DOMAIN book.sell_orders)
        bids == SortedAsc(DOMAIN book.buy_orders)
    IN  CASE type = "askprc" ->
               IF depth <= Len(asks) THEN Num(asks[depth]) ELSE nan
          [] type = "askamt" ->
               IF depth <= Len(asks) THEN Num(book.sell_orders[asks[depth]]) ELSE nan
          [] type = "bidprc" ->
               IF depth <= Len(bids) THEN Num(bids[depth]) ELSE nan
          [] type = "bidamt" ->
               IF depth <= Len(bids) THEN Num(book.buy_orders[bids[depth]]) ELSE nan

\* the element cls_update appends to series f'{type}{depth}' for one book
HistEntry(book, type, depth) ==
    LET asks == SortedAsc(DOMAIN book.sell_orders)
        bids == SortedDesc(DOMAIN book.buy_orders)
    IN  CASE type = "askprc" ->
               IF depth <= Len(asks) THEN Num(asks[depth]) ELSE nan
          [] type = "askamt" ->
               IF depth <= Len(asks) THEN Num(book.sell_orders[asks[depth]]) ELSE nan
          [] type = "bidprc" ->
               IF depth <= Len(bids) THEN Num(bids[depth]) ELSE nan
          [] type = "bidamt" ->
               IF depth <= Len(bids) THEN Num(book.buy_orders[bids[depth]]) ELSE nan

\* a product the feed does not report reset to 0
cls_update_position_reset(rt, st) ==
    [product \in DOMAIN rt |->
        IF product \in DOMAIN st.position THEN st.position[product] ELSE 0]

\* cls_update, lines 183-184: the feed positions overwrite the realtime ones
cls_update_position(rt, st) ==
    [product \in DOMAIN rt |->
        IF product \in DOMAIN st.position THEN st.position[product] ELSE rt[product]]

\* the padding loops left out: a missing level appends nothing
cls_update_hist_unpadded(hist, st) ==
    [product \in DOMAIN hist |->
        IF product \in DOMAIN st.order_depths
        THEN [k \in SeriesKeys |->
                IF IsNan(HistEntry(st.order_depths[product], k[1], k[2]))
                THEN hist[product][k]
                ELSE Append(hist[product][k],
                            HistEntry(st.order_depths[product], k[1], k[2]))]
        ELSE hist[product]]

\* cls_update, lines 186-208: one element more on each series of each product
\* of the frame
cls_update_hist(hist, st) ==
    [product \in DOMAIN hist |->
        IF product \in DOMAIN st.order_depths
        THEN [k \in SeriesKeys |->
                Append(hist[product][k], HistEntry(st.order_depths[product], k[1], k[2]))]
        ELSE hist[product]]

\* the Python slice lst[-size:] for size >= 0: -0 is 0, so size 0 takes the
\* whole list
SliceLast(lst, size) ==
    LET start == IF size = 0 THEN 0
                 ELSE IF Len(lst) - size < 0 THEN 0 ELSE Len(lst) - size
    IN  SubSeq(lst, start + 1, Len(lst))

hist_order_depth(hist, product, type, depth, size) ==
    LET window == SliceLast(hist[product][<<type, depth>>], size)
    IN  [i \in 1..Len(window) |-> Float32(window[i])]

\* twice hist_mid_prc: the sum of the level-1 bid and ask price windows,
\* element by element, nan where either is nan
hist_mid_prc2(hist, product, size) ==
    LET bid == hist_order_depth(hist, product, "bidprc", 1, size)
        ask == hist_order_depth(hist, product, "askprc", 1, size)
    IN  [i \in 1..Len(bid) |->
            IF IsNan(bid[i]) \/ IsNan(ask[i]) THEN nan ELSE Num(bid[i][1] + ask[i][1])]

----------------------------------------------------------------------------
(* Status.updates: the two exponential moving averages of mid *)

\* prev * (1 - 2/36) + 2/36 * mid for prev = e[1] / e[2], e[2] even
Ema35Next(e, m2) == <<17 * e[1] + m2 * (e[2] \div 2), 18 * e[2]>>
\* prev * (1 - 2/101) + 2/101 * mid
Ema100Next(e, m2) == <<99 * e[1] + m2 * e[2], 101 * e[2]>>

updates_35(ema35, st, product) ==
    IF Len(ema35) = 0
    THEN Append(ema35, <<mid2(st, product), 2>>)
    ELSE Append(ema35, Ema35Next(ema35[Len(ema35)], mid2(st, product)))

updates_100(ema100, st, product) ==
    IF Len(ema100) = 0
    THEN Append(ema100, <<mid2(st, product), 2>>)
    ELSE Append(ema100, Ema100Next(ema100[Len(ema100)], mid2(st, product)))

----------------------------------------------------------------------------
(* Strategy, Trade, Trader *)

Order(symbol, price, quantity) == [symbol |-> symbol, price |-> price, quantity |-> quantity]

\* the loop of Strategy.ema_crossover from the i-th ask level on; a rejected
\* rt_position_update raises out of the strategy
RECURSIVE sweep_asks(_, _, _, _, _, _)
sweep_asks(st, product, asks, i, rt, orders) ==
    IF i > Len(asks) THEN [orders |-> orders, rt |-> rt, exc |-> ""]
    ELSE LET price == asks[i][1]
             amount == asks[i][2]
             buy_amount == possible_buy_amt(st, rt, product)
             executed_amount == Min2(buy_amount, Abs(amount))
             new_position == rt_position(rt, product) + executed_amount
             placed == Append(orders, Order(product, price, executed_amount))
         IN  IF rt_position_accepted(product, new_position)
             THEN sweep_asks(st, product, asks, i + 1,
                             _cls_rt_position_update(rt, product, new_position), placed)
             ELSE [orders |-> placed, rt |-> rt, exc |-> "ValueError"]

\* the condition of Strategy.ema_crossover: the fast EMA crosses the slow one upwards
upward_cross(ema35, ema100) ==
    /\ Len(ema35) >= 2
    /\ EmaGE(ema35[Len(ema35)], ema100[Len(ema100)])
    /\ EmaLT(ema35[Len(ema35) - 1], ema100[Len(ema100) - 1])

ema_crossover(st, rt, ema35, ema100, product) ==
    IF upward_cross(ema35, ema100)
    THEN sweep_asks(st, product, all_asks_sorted(st, product), 1, rt, <<>>)
    ELSE [orders |-> <<>>, rt |-> rt, exc |-> ""]

squidInk(st, rt, ema35, ema100) == ema_crossover(st, rt, ema35, ema100, "SQUID_INK")

\* the buy of bollinger_band and of something: one order at the best ask, sized
\* to the room and to the amount at the best ask, then rt_position_update
buy_best_ask(st, rt, product) ==
    IF DOMAIN sell_orders(st, product) = {}
    THEN [orders |-> <<>>, rt |-> rt, exc |-> "ValueError: min() arg is an empty sequence"]
    ELSE LET buy_amount == possible_buy_amt(st, rt, product)
             executed_amount == Min2(buy_amount, best_ask_amount(st, product))
             new_position == rt_position(rt, product) + executed_amount
             placed == <<Order(product, best_ask(st, product), executed_amount)>>
         IN  IF rt_position_accepted(product, new_position)
             THEN [orders |-> placed,
                   rt |-> _cls_rt_position_update(rt, product, new_position), exc |-> ""]
             ELSE [orders |-> placed, rt |-> rt, exc |-> "ValueError"]

\* the sell of bollinger_band and of something, at the best bid
sell_best_bid(st, rt, product) ==
    IF DOMAIN buy_orders(st, product) = {}
    THEN [orders |-> <<>>, rt |-> rt, exc |-> "ValueError: max() arg is an empty sequence"]
    ELSE LET sell_amount == possible_sell_amt(st, rt, product)
             executed_amount == Min2(sell_amount, best_bid_amount(st, product))
             new_position == rt_position(rt, product) - executed_amount
             placed == <<Order(product, best_bid(st, product), -executed_amount)>>
         IN  IF rt_position_accepted(product, new_position)
             THEN [orders |-> placed,
                   rt |-> _cls_rt_position_update(rt, product, new_position), exc |-> ""]
             ELSE [orders |-> placed, rt |-> rt, exc |-> "ValueError"]

something(st, rt, product) ==
    IF BookQueryError(st, product) # ""
    THEN [orders |-> <<>>, rt |-> rt, exc |-> BookQueryError(st, product)]
    ELSE IF best_ask(st, product) > best_bid(st, product)
    THEN buy_best_ask(st, rt, product)
    ELSE sell_best_bid(st, rt, product)

RECURSIVE SeqSum(_)
SeqSum(seq) == IF Len(seq) = 0 THEN 0 ELSE Head(seq) + SeqSum(Tail(seq))

\* k * sqrt(v) < d for integers k, d and v >= 0, without the root
SqrtLess(k, v, d) ==
    IF k >= 0 THEN d > 0 /\ k * k * v < d * d
    ELSE d > 0 \/ k * k * v > d * d

\* bollinger_band. With x the doubled mids of the window, w their number, s
\* their sum and q the sum of their squares, mean is s / 2w and std is
\* sqrt(w * q - s * s) / 2w, so current_price < mean - num_std_dev * std is
\* num_std_dev * sqrt(w * q - s * s) < s - w * twice current_price. The
\* float32 rounding of np.mean and np.std is not modelled; for a window of 1 or
\* 2 prices that are halves of small integers they are exact.
bollinger_band(st, rt, hist, product, window) ==
    LET quiet == [orders |-> <<>>, rt |-> rt, exc |-> ""]
        mid_price == hist_mid_prc2(hist, product, window)
        prices == SliceLast(mid_price, window)
        x == [i \in 1..Len(prices) |-> prices[i][1]]
        w == Len(prices)
        s == SeqSum(x)
        q == SeqSum([i \in 1..w |-> x[i] * x[i]])
        num_std_dev == worst_ask(st, product) - best_bid(st, product)
        below == s - w * maxamt_midprc2(st, product)
    IN  IF BookQueryError(st, product) # ""
        THEN [quiet EXCEPT !.exc = BookQueryError(st, product)]
        ELSE IF Len(mid_price) < window THEN quiet
        ELSE IF w = 0 \/ \E i \in 1..w : IsNan(prices[i]) THEN quiet
        ELSE IF SqrtLess(num_std_dev, w * q - s * s, below)
        THEN buy_best_ask(st, rt, product)
        ELSE IF SqrtLess(num_std_dev, w * q - s * s, -below)
        THEN sell_best_bid(st, rt, product)
        ELSE quiet

\* Trader.run on the Status data (rt, hist, ema35, ema100 of the SQUID_INK
\* instance): the data after the call, the result dict and the exception raised
run(st, rt, hist, ema35, ema100) ==
    LET rt1 == cls_update_position(rt, st)
        hist1 == cls_update_hist(hist, st)
        quiet == [rt |-> rt1, hist |-> hist1, ema35 |-> ema35, ema100 |-> ema100,
                  result |-> <<>>, exc |-> ""]
    IN  IF "SQUID_INK" \in DOMAIN st.order_depths
        THEN IF EmptyBook(st, "SQUID_INK")
             THEN [quiet EXCEPT !.exc = "RecursionError"]
             ELSE LET e35 == updates_35(ema35, st, "SQUID_INK")
                      e100 == updates_100(ema100, st, "SQUID_INK")
                      traded == squidInk(st, rt1, e35, e100)
                  IN  [rt |-> traded.rt, hist |-> hist1, ema35 |-> e35, ema100 |-> e100,
                       result |-> IF traded.exc = "" THEN "SQUID_INK" :> traded.orders
                                  ELSE <<>>,
                       exc |-> traded.exc]
        ELSE quiet

\* a strategy put into the slot of Trade.squidInk ("all strategies here") after
\* ema_crossover: it emits orders at the best ask and routes each through
\* rt_position_update as the strategies of the template do, but takes their
\* quantities as they come instead of sizing them to possible_buy_amt
RECURSIVE unsized_strategy(_, _, _, _, _, _)
unsized_strategy(st, product, quantities, i, rt, orders) ==
    IF i > Len(quantities) THEN [orders |-> orders, rt |-> rt, exc |-> ""]
    ELSE LET executed_amount == quantities[i]
             new_position == rt_position(rt, product) + executed_amount
             placed == Append(orders, Order(product, best_ask(st, product), executed_amount))
         IN  IF rt_position_accepted(product, new_position)
             THEN unsized_strategy(st, product, quantities, i + 1,
                                   _cls_rt_position_update(rt, product, new_position), placed)
             ELSE [orders |-> placed, rt |-> rt, exc |-> "ValueError"]

\* Trader.run with that strategy in the slot: nothing is caught between
\* rt_position_update and the caller of run
run_with(st, rt, hist, ema35, ema100, quantities) ==
    LET r == run(st, rt, hist, ema35, ema100)
    IN  IF r.exc = "" /\ "SQUID_INK" \in DOMAIN st.order_depths
        THEN LET extra == unsized_strategy(st, "SQUID_INK", quantities, 1, r.rt, <<>>)
             IN  [r EXCEPT !.rt = extra.rt,
                           !.result = IF extra.exc = ""
                                      THEN "SQUID_INK" :> (r.result["SQUID_INK"] \o extra.orders)
                                      ELSE <<>>,
                           !.exc = extra.exc]
        ELSE r

----------------------------------------------------------------------------
(* backtest.py: settlement *)

RECURSIVE DictValues(_)
\* the order lists of one tick's result dict, one after the other
DictValues(d) ==
    IF DOMAIN d = {} THEN <<>>
    ELSE LET k == CHOOSE x \in DOMAIN d : TRUE
         IN  d[k] \o DictValues([x \in DOMAIN d \ {k} |-> d[x]])

RECURSIVE LedgerOrders(_)
\* every order of the ledger, in the order calculate_pnl visits them
LedgerOrders(all_orders) ==
    IF Len(all_orders) = 0 THEN <<>>
    ELSE DictValues(Head(all_orders)) \o LedgerOrders(Tail(all_orders))

LedgerSymbols(all_orders) == UNION {DOMAIN all_orders[i] : i \in 1..Len(all_orders)}

RECURSIVE OrdersCost(_)
\* sum of price * quantity
OrdersCost(orders) ==
    IF Len(orders) = 0 THEN 0
    ELSE Head(orders).price * Head(orders).quantity + OrdersCost(Tail(orders))

RECURSIVE OrdersQuantity(_, _)
\* final_inventory[product] once it has an entry
OrdersQuantity(orders, product) ==
    IF Len(orders) = 0 THEN 0
    ELSE (IF Head(orders).symbol = product THEN Head(orders).quantity ELSE 0)
         + OrdersQuantity(Tail(orders), product)

\* state.listings: backtest.py fills listings and order_depths from the same rows
listings(st) == DOMAIN st.order_depths

\* twice the mid_price calculate_pnl values a position at
mid_price2(order_depth) ==
    LET bids == DOMAIN order_depth.buy_orders
        asks == DOMAIN order_depth.sell_orders
    IN  IF bids = {} /\ asks = {} THEN 0
        ELSE IF bids = {} THEN 2 * SetMin(asks)
        ELSE IF asks = {} THEN 2 * SetMax(bids)
        ELSE SetMax(bids) + SetMin(asks)

RECURSIVE InventoryValue2(_, _, _)
\* twice the sum of final_pos * mid_price over the products of the inventory
InventoryValue2(products, orders, final_state) ==
    IF products = {} THEN 0
    ELSE LET product == CHOOSE x \in products : TRUE
             final_pos == OrdersQuantity(orders, product)
             value == IF final_pos = 0 THEN 0
                      ELSE IF product \in DOMAIN final_state.order_depths
                      THEN final_pos * mid_price2(final_state.order_depths[product])
                      ELSE 0
         IN  value + InventoryValue2(products \ {product}, orders, final_state)

\* calculate_pnl: twice the value returned, or the exception raised
calculate_pnl(all_orders, final_state) ==
    LET orders == LedgerOrders(all_orders)
        traded == {orders[i].symbol : i \in 1..Len(orders)}
    IN  IF final_state.isNone THEN Returned(<<0>>)
        ELSE IF ~(LedgerSymbols(all_orders) \subseteq listings(final_state))
        THEN Raised("KeyError")
        ELSE Returned(<<-2 * OrdersCost(orders)
                        + InventoryValue2(traded, orders, final_state)>>)

----------------------------------------------------------------------------
(* Inputs *)

EmptyDict == <<>>
DictSet(d, k, v) == [x \in DOMAIN d \cup {k} |-> IF x = k THEN v ELSE d[x]]

\* the dicts with keys among keys and values chosen per key
Dicts(keys, Choices(_)) ==
    UNION {{d \in [S -> UNION {Choices(k) : k \in S}] : \A k \in S : d[k] \in Choices(k)} :
           S \in SUBSET keys}

\* the mids of the replayed books are 4, 5, 7 and 7.5: on every stream of up to
\* 5 of them the doubles of Status.updates order the two EMAs as the exact
\* values do
BookLow == OrderDepth(3 :> 10, 5 :> -20)
BookMid == OrderDepth(4 :> 10, 6 :> -20)
BookHigh == OrderDepth(6 :> 10, (8 :> -30) @@ (9 :> -30) @@ (10 :> -5))
BookBidsOnly == OrderDepth(7 :> 5, EmptyDict)
BookAsksOnly == OrderDepth(EmptyDict, 8 :> -7)
BookEmpty == OrderDepth(EmptyDict, EmptyDict)
\* more than 3 levels on a side: only a direct caller of cls_update can pass it
BookDeep == OrderDepth((9 :> 5) @@ (8 :> 3),
                       (11 :> -4) @@ (12 :> -2) @@ (13 :> -1) @@ (14 :> -6))
BookKelp == OrderDepth(5 :> 1, 6 :> -1)

\* the books a frame of the replay may hold for a product: backtest.py reads
\* levels 1..3 of a row and keeps those with a positive volume
FrameBooks(product) ==
    IF product = "SQUID_INK"
    THEN {BookLow, BookMid, BookHigh, BookBidsOnly, BookAsksOnly, BookEmpty}
    ELSE {BookKelp}

\* a frame: the books of the rows of one timestamp, at least one row
Frames == Dicts(Products, FrameBooks) \ {EmptyDict}

\* the TradingStates a direct caller of Status.cls_update passes: the feed may
\* report any position, also one beyond the limit
CallBooks(product) ==
    IF product = "SQUID_INK" THEN {BookDeep, BookBidsOnly, BookEmpty} ELSE {BookAsksOnly}
CallFeeds ==
    {EmptyDict,
     "SQUID_INK" :> (_position_limit["SQUID_INK"] + 10),
     ("SQUID_INK" :> 20) @@ ("KELP" :> -20)}
CallStates ==
    {TradingState(d, pos) : d \in Dicts(Products, CallBooks), pos \in CallFeeds}

\* the TradingStates passed when the other Status calls interleave
TickStates ==
    {TradingState(("SQUID_INK" :> BookDeep) @@ ("KELP" :> BookAsksOnly), EmptyDict),
     TradingState("SQUID_INK" :> BookBidsOnly,
                  ("SQUID_INK" :> (_position_limit["SQUID_INK"] + 10)) @@ ("KELP" :> -20)),
     TradingState("KELP" :> BookAsksOnly, "SQUID_INK" :> 20),
     TradingState("SQUID_INK" :> BookEmpty, "KELP" :> -20)}

\* the books of the direct calls of the strategies: amounts in tens, so that
\* the positions the strategies reach stay few
\* the largest ask is not at the best price
BookWide == OrderDepth((9 :> 30) @@ (8 :> 20), (11 :> -30) @@ (12 :> -30) @@ (14 :> -40))
\* the largest bid is not at the best price
BookSkewed == OrderDepth((9 :> 10) @@ (7 :> 20), 11 :> -20)

\* the TradingStates passed when the strategies are called directly. The mids
\* of SQUID_INK are 7, 5 and 10, and 8 after update_bids below: the EMAs cross
\* upwards on 7, 5, 10, and on every sequence of these mids the doubles of
\* Status.updates order the two EMAs as the exact values do
StrategyStates ==
    {TradingState("SQUID_INK" :> BookHigh, EmptyDict),
     TradingState(("SQUID_INK" :> BookMid) @@ ("KELP" :> BookAsksOnly), "KELP" :> 40),
     TradingState(("SQUID_INK" :> BookWide) @@ ("KELP" :> BookEmpty), "SQUID_INK" :> 40),
     TradingState(("SQUID_INK" :> BookSkewed) @@ ("KELP" :> BookAsksOnly),
                  ("SQUID_INK" :> -40) @@ ("KELP" :> -(_position_limit["KELP"] + 10)))}

\* the window sizes passed to bollinger_band
BandWindows == {1, 2}

\* the bid a caller writes with update_bids between the strategies: it locks
\* or crosses the book of some of the states above
StrategyBids == {<<8, 10>>}

\* the new_position values tried on the tracker alone: every integer up to Over
\* beyond the limit
TrackerPositions(product) ==
    (-(_position_limit[product] + Over))..(_position_limit[product] + Over)

\* the new_position values tried between the other calls: the limit and Over
\* beyond it, on either side
CallNewPositions(product) ==
    IF product = "SQUID_INK"
    THEN {-(_position_limit[product] + Over), _position_limit[product]}
    ELSE {-_position_limit[product], _position_limit[product] + Over}

\* the prices and amounts tried on update_bids and update_asks
CallPrices == {10}
CallAmounts == {-2, 0, 2}

----------------------------------------------------------------------------
(* Initial state: the class attributes of Status and the globals of backtest.py *)

Init ==
    /\ _state = NoState
    /\ _realtime_position = [product \in Products |-> 0]
    /\ _hist_order_depths = [product \in Products |-> [k \in SeriesKeys |-> <<>>]]
    /\ _num_data = 0
    /\ ema_mid_35 = [product \in Products |-> <<>>]
    /\ ema_mid_100 = [product \in Products |-> <<>>]
    /\ ret = Returned(None)
    /\ pc = "loop"
    /\ state = NoState
    /\ current_position = EmptyDict
    /\ all_orders_placed = <<>>
    /\ orders_dict = EmptyDict
    /\ last_state = NoState
    /\ final_pnl = 0
    /\ seen = [product \in Products |-> 0]

\* the frames holding each product, counted
SeenAfter(st) ==
    [product \in Products |->
        IF product \in DOMAIN st.order_depths THEN seen[product] + 1 ELSE seen[product]]

----------------------------------------------------------------------------
(* Status: the calls, made by any caller *)

cls_update(st) ==
    /\ _state' = st
    /\ _realtime_position' = cls_update_position(_realtime_position, st)
    /\ _hist_order_depths' = cls_update_hist(_hist_order_depths, st)
    /\ _num_data' = _num_data + 1
    /\ seen' = SeenAfter(st)
    /\ ret' = Returned(None)
    /\ UNCHANGED <<ema_mid_35, ema_mid_100, backtestVars>>

rt_position_update(product, new_position) ==
    /\ _realtime_position' = _cls_rt_position_update(_realtime_position, product, new_position)
    /\ ret' = IF rt_position_accepted(product, new_position)
              THEN Returned(None) ELSE Raised("ValueError")
    /\ UNCHANGED <<_state, _hist_order_depths, _num_data, ema_mid_35, ema_mid_100,
                   backtestVars, seen>>

updates(product) ==
    /\ IF BookQueryError(_state, product) # ""
       THEN /\ ret' = Raised(BookQueryError(_state, product))
            /\ UNCHANGED <<ema_mid_35, ema_mid_100>>
       ELSE /\ ema_mid_35' = [ema_mid_35 EXCEPT
                                ![product] = updates_35(@, _state, product)]
            /\ ema_mid_100' = [ema_mid_100 EXCEPT
                                 ![product] = updates_100(@, _state, product)]
            /\ ret' = Returned(None)
    /\ UNCHANGED <<_state, _realtime_position, _hist_order_depths, _num_data,
                   backtestVars, seen>>

\* _cls_update_bids: the buy_orders after the call
_cls_update_bids(buys, prc, new_amt) ==
    IF new_amt > 0 THEN DictSet(buys, prc, new_amt)
    ELSE IF new_amt = 0 THEN DictSet(buys, prc, 0)
    ELSE buys

\* _cls_update_asks: the sell_orders after the call
_cls_update_asks(sells, prc, new_amt) ==
    IF new_amt < 0 THEN DictSet(sells, prc, new_amt)
    ELSE IF new_amt = 0 THEN DictSet(sells, prc, 0)
    ELSE sells

update_bids(product, prc, new_amt) ==
    /\ IF BookAccessError(_state, product) # ""
       THEN /\ ret' = Raised(BookAccessError(_state, product))
            /\ UNCHANGED _state
       ELSE /\ _state' = [_state EXCEPT !.order_depths[product].buy_orders =
                                            _cls_update_bids(@, prc, new_amt)]
            /\ ret' = Returned(None)
    /\ UNCHANGED <<_realtime_position, _hist_order_depths, _num_data, ema_mid_35,
                   ema_mid_100, backtestVars, seen>>

update_asks(product, prc, new_amt) ==
    /\ IF BookAccessError(_state, product) # ""
       THEN /\ ret' = Raised(BookAccessError(_state, product))
            /\ UNCHANGED _state
       ELSE /\ _state' = [_state EXCEPT !.order_depths[product].sell_orders =
                                            _cls_update_asks(@, prc, new_amt)]
            /\ ret' = Returned(None)
    /\ UNCHANGED <<_realtime_position, _hist_order_depths, _num_data, ema_mid_35,
                   ema_mid_100, backtestVars, seen>>

\* a read of one of the properties best_bid, best_ask, mid, spread
BookQueries == {"best_bid", "best_ask", "mid", "spread"}
book_query(product, name) ==
    /\ ret' = IF BookQueryError(_state, product) # ""
              THEN Raised(BookQueryError(_state, product))
              ELSE Returned(<<CASE name = "best_bid" -> best_bid(_state, product)
                                [] name = "best_ask" -> best_ask(_state, product)
                                [] name = "mid" -> mid2(_state, product)
                                [] name = "spread" -> spread(_state, product)>>)
    /\ UNCHANGED <<statusVars, backtestVars, seen>>

\* a read of one of the properties possible_buy_amt, possible_sell_amt
RoomQueries == {"possible_buy_amt", "possible_sell_amt"}
room_query(product, name) ==
    /\ ret' = IF _state.isNone THEN Raised("AttributeError")
              ELSE Returned(<<CASE name = "possible_buy_amt" ->
                                     possible_buy_amt(_state, _realtime_position, product)
                                [] name = "possible_sell_amt" ->
                                     possible_sell_amt(_state, _realtime_position, product)>>)
    /\ UNCHANGED <<statusVars, backtestVars, seen>>

----------------------------------------------------------------------------
(* Strategy: the strategies, called on the Status instance of a product *)

\* the call of a strategy that ended as r: the orders are returned, or the
\* exception leaves the strategy
StrategyCall(r) ==
    /\ _realtime_position' = r.rt
    /\ ret' = IF r.exc = "" THEN Returned(r.orders) ELSE Raised(r.exc)
    /\ UNCHANGED <<_state, _hist_order_depths, _num_data, ema_mid_35, ema_mid_100,
                   backtestVars, seen>>

Strategy_ema_crossover(product) ==
    StrategyCall(IF upward_cross(ema_mid_35[product], ema_mid_100[product])
                    /\ BookAccessError(_state, product) # ""
                 THEN [orders |-> <<>>, rt |-> _realtime_position,
                       exc |-> BookAccessError(_state, product)]
                 ELSE ema_crossover(_state, _realtime_position, ema_mid_35[product],
                                    ema_mid_100[product], product))

Strategy_bollinger_band(product, window) ==
    StrategyCall(bollinger_band(_state, _realtime_position, _hist_order_depths,
                                product, window))

Strategy_something(product) ==
    StrategyCall(something(_state, _realtime_position, product))

----------------------------------------------------------------------------
(* backtest.py: the replay loop *)

\* lines 47-115: the rows of the next timestamp become the TradingState of the tick
BuildState(frame) ==
    /\ pc = "loop"
    /\ LET positions == [product \in DOMAIN current_position \cup DOMAIN frame |->
                            IF product \in DOMAIN current_position
                            THEN current_position[product] ELSE 0]
       IN  /\ current_position' = positions
           /\ state' = TradingState(frame, positions)
    /\ pc' = "run"
    /\ UNCHANGED <<statusVars, ret, seen, all_orders_placed, orders_dict, last_state,
                   final_pnl>>

\* line 118: trader.run(state); an exception ends the script
TraderRun ==
    /\ pc = "run"
    /\ LET r == run(state, _realtime_position, _hist_order_depths,
                    ema_mid_35["SQUID_INK"], ema_mid_100["SQUID_INK"])
       IN  /\ _state' = state
           /\ _realtime_position' = r.rt
           /\ _hist_order_depths' = r.hist
           /\ _num_data' = _num_data + 1
           /\ ema_mid_35' = [ema_mid_35 EXCEPT !["SQUID_INK"] = r.ema35]
           /\ ema_mid_100' = [ema_mid_100 EXCEPT !["SQUID_INK"] = r.ema100]
           /\ seen' = SeenAfter(state)
           /\ IF r.exc = ""
              THEN /\ orders_dict' = r.result
                   /\ ret' = Returned(None)
                   /\ pc' = "record"
              ELSE /\ ret' = Raised(r.exc)
                   /\ pc' = "crashed"
                   /\ UNCHANGED orders_dict
    /\ UNCHANGED <<state, current_position, all_orders_placed, last_state, final_pnl>>

\* line 118 with a strategy of the given order quantities in the slot of
\* Trade.squidInk
TraderRunWith(quantities) ==
    /\ pc = "run"
    /\ LET r == run_with(state, _realtime_position, _hist_order_depths,
                         ema_mid_35["SQUID_INK"], ema_mid_100["SQUID_INK"], quantities)
       IN  /\ _state' = state
           /\ _realtime_position' = r.rt
           /\ _hist_order_depths' = r.hist
           /\ _num_data' = _num_data + 1
           /\ ema_mid_35' = [ema_mid_35 EXCEPT !["SQUID_INK"] = r.ema35]
           /\ ema_mid_100' = [ema_mid_100 EXCEPT !["SQUID_INK"] = r.ema100]
           /\ seen' = SeenAfter(state)
           /\ IF r.exc = ""
              THEN /\ orders_dict' = r.result
                   /\ ret' = Returned(None)
                   /\ pc' = "record"
              ELSE /\ ret' = Raised(r.exc)
                   /\ pc' = "crashed"
                   /\ UNCHANGED orders_dict
    /\ UNCHANGED <<state, current_position, all_orders_placed, last_state, final_pnl>>

\* the quantity of an order assigned to the position instead of added to it
PositionAfter_assigned(positions, orders) ==
    [product \in DOMAIN positions \cup DOMAIN orders |->
        IF product \in DOMAIN orders /\ Len(orders[product]) > 0
        THEN orders[product][Len(orders[product])].quantity
        ELSE IF product \in DOMAIN positions THEN positions[product] ELSE 0]

\* lines 126-131: the position carried to the next tick
PositionAfter(positions, orders) ==
    [product \in DOMAIN positions \cup DOMAIN orders |->
        (IF product \in DOMAIN positions THEN positions[product] ELSE 0)
        + (IF product \in DOMAIN orders THEN OrdersQuantity(orders[product], product) ELSE 0)]

\* lines 121-131: the orders of the tick join the ledger
RecordOrders ==
    /\ pc = "record"
    /\ all_orders_placed' = Append(all_orders_placed, orders_dict)
    /\ last_state' = state
    /\ current_position' = PositionAfter(current_position, orders_dict)
    /\ pc' = "loop"
    /\ UNCHANGED <<statusVars, ret, seen, state, orders_dict, final_pnl>>

\* line 47: no timestamp is left
EndOfStream ==
    /\ pc = "loop"
    /\ pc' = "settle"
    /\ UNCHANGED <<statusVars, ret, seen, state, current_position, all_orders_placed,
                   orders_dict, last_state, final_pnl>>

\* line 196: final_pnl = calculate_pnl(all_orders_placed, last_state)
Settle ==
    /\ pc = "settle"
    /\ LET r == calculate_pnl(all_orders_placed, last_state)
       IN  /\ ret' = r
           /\ IF r.exc = ""
              THEN final_pnl' = r.val[1] /\ pc' = "done"
              ELSE UNCHANGED final_pnl /\ pc' = "crashed"
    /\ UNCHANGED <<statusVars, seen, state, current_position, all_orders_placed,
                   orders_dict, last_state>>

----------------------------------------------------------------------------
(* Specifications *)

\* the position tracker under rt_position_update calls alone
NextTracker ==
    \E product \in Products : \E new_position \in TrackerPositions(product) :
        rt_position_update(product, new_position)

SpecTracker == Init /\ [][NextTracker]_vars

\* the history of Status under cls_update calls alone
NextHistory == \E st \in CallStates : _num_data < MaxTicks /\ cls_update(st)

SpecHistory == Init /\ [][NextHistory]_vars

\* the Status class under any interleaving of its calls; Trader calls updates
\* once a tick, on its SQUID_INK instance
NextStatus ==
    \/ \E st \in TickStates : _num_data < MaxCalls /\ cls_update(st)
    \/ \E product \in Products : \E new_position \in CallNewPositions(product) :
          rt_position_update(product, new_position)
    \/ Len(ema_mid_35["SQUID_INK"]) < _num_data /\ updates("SQUID_INK")
    \/ \E product \in Products, prc \in CallPrices, new_amt \in CallAmounts :
          update_bids(product, prc, new_amt)
    \/ \E product \in Products, prc \in CallPrices, new_amt \in CallAmounts :
          update_asks(product, prc, new_amt)
    \/ \E product \in Products, name \in BookQueries : book_query(product, name)
    \/ \E product \in Products, name \in RoomQueries : room_query(product, name)

SpecStatus == Init /\ [][NextStatus]_vars

\* backtest.py: the replay of a stream of at most MaxTicks frames, then settlement
Next ==
    \/ \E frame \in Frames : _num_data < MaxTicks /\ BuildState(frame)
    \/ TraderRun
    \/ RecordOrders
    \/ EndOfStream
    \/ Settle

Spec == Init /\ [][Next]_vars

\* the replay with a strategy added to Trade.squidInk that does not size its
\* orders: in a tick it emits nothing, or one order of 30
SlotQuantities == {<<>>, <<30>>}

NextSlot ==
    \/ \E frame \in Frames : _num_data < MaxSlotTicks /\ BuildState(frame)
    \/ \E quantities \in SlotQuantities : TraderRunWith(quantities)
    \/ RecordOrders
    \/ EndOfStream
    \/ Settle

SpecSlot == Init /\ [][NextSlot]_vars

\* the strategies of the template called in any order after the calls Trader.run
\* makes on Status in a tick, cls_update and then updates of the SQUID_INK instance
NextStrategies ==
    \/ \E st \in StrategyStates :
          /\ _num_data < MaxStrategyTicks
          /\ Len(ema_mid_35["SQUID_INK"]) = _num_data
          /\ cls_update(st)
    \/ Len(ema_mid_35["SQUID_INK"]) < _num_data /\ updates("SQUID_INK")
    \/ \E bid \in StrategyBids : update_bids("SQUID_INK", bid[1], bid[2])
    \/ \E product \in Products : Strategy_ema_crossover(product)
    \/ \E product \in Products, window \in BandWindows :
          Strategy_bollinger_band(product, window)
    \/ \E product \in Products : Strategy_something(product)

SpecStrategies == Init /\ [][NextStrategies]_vars

----------------------------------------------------------------------------
(* The position tracker *)

\* C1: after any sequence of rt_position_update calls from the all-zero
\* positions, every product's realtime position is within its limit.
C1_WithinLimit ==
    \A product \in Products :
        /\ _realtime_position[product] <= _position_limit[product]
        /\ -_realtime_position[product] <= _position_limit[product]

\* a call was rejected while one product stands at its limit and the other at
\* the opposite limit
C1_Witness ==
    /\ ret.exc = "ValueError"
    /\ _realtime_position["SQUID_INK"] = _position_limit["SQUID_INK"]
    /\ _realtime_position["KELP"] = -_position_limit["KELP"]

\* what the claim says of one call: beyond the limit it raises and no position
\* changes, within the limit it commits new_position and raises nothing
C2_Outcome(product, new_position) ==
    LET beyond == new_position > _position_limit[product]
                  \/ -new_position > _position_limit[product]
    IN  IF beyond
        THEN /\ ret'.exc = "ValueError"
             /\ _realtime_position' = _realtime_position
        ELSE /\ ret'.exc = ""
             /\ _realtime_position'[product] = new_position
             /\ \A other \in Products \ {product} :
                    _realtime_position'[other] = _realtime_position[other]

\* C2: a rt_position_update beyond the limit ends in the error and leaves every
\* position as it was; one within the limit commits new_position without error.
C2_RejectOrCommit ==
    [][\A product \in Products : \A new_position \in CallNewPositions(product) :
          rt_position_update(product, new_position) => C2_Outcome(product, new_position)]_vars

\* a call was rejected and the position the feed had set beyond the limit stands
C2_Witness ==
    /\ ret.exc = "ValueError"
    /\ _realtime_position["SQUID_INK"] > _position_limit["SQUID_INK"]
    /\ _realtime_position["KELP"] = -_position_limit["KELP"]

----------------------------------------------------------------------------
(* Settlement *)

\* calculate_pnl has been called: it returned, or it raised (a KeyError is
\* raised nowhere else)
Settled == pc = "done" \/ (pc = "crashed" /\ ret.exc = "KeyError")

\* the final frame of the replay
FinalFrame == last_state.order_depths

\* twice the mark of a symbol in the final frame: the mid of its book, the best
\* price of the side that has levels, 0 without levels
Mark2(symbol) ==
    LET bids == IF symbol \in DOMAIN FinalFrame
                THEN DOMAIN FinalFrame[symbol].buy_orders ELSE {}
        asks == IF symbol \in DOMAIN FinalFrame
                THEN DOMAIN FinalFrame[symbol].sell_orders ELSE {}
        bid == CHOOSE b \in bids : \A x \in bids : x <= b
        ask == CHOOSE a \in asks : \A x \in asks : a <= x
    IN  IF bids # {} /\ asks # {} THEN bid + ask
        ELSE IF bids # {} THEN 2 * bid
        ELSE IF asks # {} THEN 2 * ask
        ELSE 0

RECURSIVE SumOver(_, _)
\* the sum of f[x] over x in S
SumOver(S, f) ==
    IF S = {} THEN 0
    ELSE LET x == CHOOSE y \in S : TRUE IN f[x] + SumOver(S \ {x}, f)

\* twice the PnL the claim gives for the ledger and the final frame
ClaimedPnl2 ==
    LET orders == LedgerOrders(all_orders_placed)
        cost == [i \in 1..Len(orders) |-> orders[i].price * orders[i].quantity]
        net == [symbol \in Products |->
                  SumOver(1..Len(orders),
                          [i \in 1..Len(orders) |->
                              IF orders[i].symbol = symbol THEN orders[i].quantity ELSE 0])]
        value == [symbol \in Products |->
                    IF net[symbol] = 0 THEN 0 ELSE net[symbol] * Mark2(symbol)]
    IN  -2 * SumOver(1..Len(orders), cost) + SumOver(Products, value)

\* C3: for the ledger of a replay and its final frame calculate_pnl returns
\* minus the cost of all orders plus, for every symbol with a nonzero net
\* quantity, that quantity at the mark of the final frame.
C3_PnlFormula == Settled => ret = Returned(<<ClaimedPnl2>>)

\* C3, where calculate_pnl returns: the value is the one the claim gives
C3_PnlFormulaWhereReturned == pc = "done" => final_pnl = ClaimedPnl2

\* settlement returned for a ledger that leaves inventory, valued at a
\* one-sided final book
C3_InventoryAtOneSidedBook ==
    /\ pc = "done"
    /\ \E symbol \in DOMAIN FinalFrame :
          /\ OrdersQuantity(LedgerOrders(all_orders_placed), symbol) # 0
          /\ DOMAIN FinalFrame[symbol].buy_orders = {}

\* C4: settlement of a ledger without orders returns 0 for every final
\* snapshot, also one that lacks a symbol of an earlier tick.
C4_EmptyLedgerZero ==
    (Settled /\ LedgerOrders(all_orders_placed) = <<>>) => ret = Returned(<<0>>)

\* C4, where calculate_pnl returns
C4_EmptyLedgerZeroWhereReturned ==
    (pc = "done" /\ LedgerOrders(all_orders_placed) = <<>>) => final_pnl = 0

----------------------------------------------------------------------------
(* History *)

\* the last k elements of a series
LastElements(series, k) == [i \in 1..k |-> series[Len(series) - k + i]]

\* the window sizes asked for a history of n ticks
Sizes(n) == 0..(n + MaxExtraSize)

\* what the claim says of one window size
C6_WindowOfSize(size) ==
    \A product \in Products : \A k \in SeriesKeys :
        LET series == _hist_order_depths[product][k]
            n == Len(series)
        IN  size \in Sizes(n) =>
              hist_order_depth(_hist_order_depths, product, k[1], k[2], size)
                = LastElements(series, IF size <= n THEN size ELSE n)

\* C6: hist_order_depth(type, depth, size) returns the last min(size, n)
\* elements of the series, in order and unpadded, for every size >= 0.
C6_Window == \A size \in 0..(MaxTicks + MaxExtraSize) : C6_WindowOfSize(size)

\* C6 for the sizes from 1 on
C6_WindowOfPositiveSize == \A size \in 1..(MaxTicks + MaxExtraSize) : C6_WindowOfSize(size)

\* C9, in a state: the 12 series of a product are as long as the number of
\* frames that held the product
C9_Lengths ==
    \A product \in Products : \A k \in SeriesKeys :
        Len(_hist_order_depths[product][k]) = seen[product]

\* C9, in a step: what a series held it still holds, at the same index
C9_Kept ==
    \A product \in Products : \A k \in SeriesKeys :
        /\ Len(_hist_order_depths'[product][k]) >= Len(_hist_order_depths[product][k])
        /\ \A i \in 1..Len(_hist_order_depths[product][k]) :
              _hist_order_depths'[product][k][i] = _hist_order_depths[product][k][i]

\* C9: after any sequence of cls_update calls the 12 series of a product have
\* one length, the number of frames so far that held the product, and no
\* element appended earlier is changed or removed.
C9_AppendOnly == [][C9_Lengths /\ C9_Lengths' /\ C9_Kept]_vars

\* three frames applied, of which one lacked SQUID_INK and two lacked KELP, and
\* a level was missing in the last one
C9_Witness ==
    /\ _num_data = 3
    /\ seen["SQUID_INK"] = 2
    /\ seen["KELP"] = 1
    /\ \E k \in SeriesKeys : Len(_hist_order_depths["SQUID_INK"][k]) = 2
                             /\ IsNan(_hist_order_depths["SQUID_INK"][k][2])

----------------------------------------------------------------------------
(* The book and the room to trade *)

\* C7: for a book with a level on at least one side, best_bid is the highest
\* bid price, or best_ask - 1 without bids; best_ask is the lowest ask price, or
\* best_bid + 1 without asks; mid is their mean and spread their difference, so
\* a one-sided book has spread 1 and mid half a tick from its best price.
C7_BestPrices ==
    \A product \in Products :
        (/\ ~_state.isNone
         /\ product \in DOMAIN _state.order_depths
         /\ ~(DOMAIN _state.order_depths[product].buy_orders = {}
              /\ DOMAIN _state.order_depths[product].sell_orders = {}))
        => LET bids == DOMAIN _state.order_depths[product].buy_orders
               asks == DOMAIN _state.order_depths[product].sell_orders
               highest == CHOOSE b \in bids : \A x \in bids : x <= b
               lowest == CHOOSE a \in asks : \A x \in asks : a <= x
               bid == best_bid(_state, product)
               ask == best_ask(_state, product)
           IN  /\ bids # {} => bid = highest
               /\ bids = {} => bid = lowest - 1
               /\ asks # {} => ask = lowest
               /\ asks = {} => ask = highest + 1
               /\ mid2(_state, product) = bid + ask
               /\ spread(_state, product) = ask - bid
               /\ bids = {} => spread(_state, product) = 1
                               /\ mid2(_state, product) = 2 * lowest - 1
               /\ asks = {} => spread(_state, product) = 1
                               /\ mid2(_state, product) = 2 * highest + 1

\* the tick holds a book with several bids and several asks, and a one-sided
\* book was read
C7_Witness ==
    /\ ~_state.isNone
    /\ "SQUID_INK" \in DOMAIN _state.order_depths
    /\ Cardinality(DOMAIN _state.order_depths["SQUID_INK"].buy_orders) >= 2
    /\ Cardinality(DOMAIN _state.order_depths["SQUID_INK"].sell_orders) >= 2
    /\ "KELP" \in DOMAIN _state.order_depths
    /\ DOMAIN _state.order_depths["KELP"].buy_orders = {}
    /\ ret.exc = ""
    /\ ret.val = <<1>>

\* C8: once a frame is applied, possible_buy_amt is the smaller of limit minus
\* the realtime position and limit minus the position of the feed (0 when the
\* feed has no entry), and possible_sell_amt the same with the positions added.
C8_Room ==
    ~_state.isNone =>
      \A product \in Products :
        LET limit == _position_limit[product]
            optimistic == _realtime_position[product]
            authoritative == IF product \in DOMAIN _state.position
                             THEN _state.position[product] ELSE 0
            buy == possible_buy_amt(_state, _realtime_position, product)
            sell == possible_sell_amt(_state, _realtime_position, product)
        IN  /\ buy <= limit - optimistic
            /\ buy <= limit - authoritative
            /\ buy = limit - optimistic \/ buy = limit - authoritative
            /\ sell <= limit + optimistic
            /\ sell <= limit + authoritative
            /\ sell = limit + optimistic \/ sell = limit + authoritative

\* the two views differ: the feed reports 20 for SQUID_INK and nothing for
\* KELP, the realtime positions are at the limits, and the room was read
C8_Witness ==
    /\ ~_state.isNone
    /\ "SQUID_INK" \in DOMAIN _state.position
    /\ "KELP" \notin DOMAIN _state.position
    /\ _state.position["SQUID_INK"] = 20
    /\ _realtime_position["SQUID_INK"] = _position_limit["SQUID_INK"]
    /\ _realtime_position["KELP"] = -_position_limit["KELP"]
    /\ ret = Returned(<<0>>)

----------------------------------------------------------------------------
(* Who writes the realtime position *)

\* the step is a call of rt_position_update
RtPositionUpdateStep ==
    \E product \in Products : \E new_position \in CallNewPositions(product) :
        rt_position_update(product, new_position)

\* the step is a call of cls_update, and it wrote the feed's positions over the
\* realtime ones and nothing else
ClsUpdateStep ==
    /\ _num_data' = _num_data + 1
    /\ \A product \in Products :
          _realtime_position'[product] =
              IF product \in DOMAIN _state'.position
              THEN _state'.position[product] ELSE _realtime_position[product]

\* C10 as stated: the realtime position changes only through
\* rt_position_update; every other operation leaves it unchanged.
C10_OnlyRtPositionUpdate ==
    [][_realtime_position' # _realtime_position => RtPositionUpdateStep]_vars

\* C10 as amended: the realtime position changes only through
\* rt_position_update and through cls_update, which overwrites it with the
\* position of the feed for every product the feed reports; updates, the
\* queries, update_bids and update_asks leave it unchanged.
C10_OnlyRtPositionUpdateOrFeed ==
    [][_realtime_position' # _realtime_position
         => RtPositionUpdateStep \/ ClsUpdateStep]_vars

\* cls_update wrote a feed position over one set by rt_position_update, and
\* updates, update_bids and update_asks ran after it
C10_Witness ==
    /\ ~_state.isNone
    /\ _realtime_position["KELP"] = -20
    /\ _realtime_position["SQUID_INK"] = _position_limit["SQUID_INK"] + 10
    /\ Len(ema_mid_35["SQUID_INK"]) = 1
    /\ 10 \in DOMAIN _state.order_depths["SQUID_INK"].buy_orders
    /\ 10 \in DOMAIN _state.order_depths["SQUID_INK"].sell_orders

----------------------------------------------------------------------------
(* A rejected position update in the replay *)

\* the tick's strategy work was abandoned on a rejected position update
Rejected == ret.exc = "ValueError"

C11_ShippedNeverRejected == ~Rejected

----------------------------------------------------------------------------
(* The replay as a state machine *)

\* trader.run raised inside the loop: the frame being processed is not
\* recorded and the frames after it are never applied
LoopAbandoned == pc = "crashed" /\ ret.exc # "KeyError"

\* C12: for every stream of frames, also one with a book empty on both sides,
\* the replay applies, runs and records each frame in turn until the stream is
\* exhausted, and then settles: the loop is never abandoned before that.
C12_EveryFrameProcessed == ~LoopAbandoned

----------------------------------------------------------------------------
(* The position carried from tick to tick *)

\* current_position.get(product, 0)
Carried(product) ==
    IF product \in DOMAIN current_position THEN current_position[product] ELSE 0

\* the sum of the quantities of all ledger orders of a product
LedgerQuantity(product) ==
    LET orders == LedgerOrders(all_orders_placed)
    IN  SumOver(1..Len(orders),
                [i \in 1..Len(orders) |->
                    IF orders[i].symbol = product THEN orders[i].quantity ELSE 0])

\* C13: once the orders of a tick are recorded, the position carried to the
\* next tick is, for every product, the realtime position of the tracker and
\* the sum of the quantities of the ledger; so when the strategies of the next
\* tick start, the position of the feed and the realtime position are equal.
C13_CarriedPosition ==
    /\ pc \in {"loop", "settle", "done"} =>
          \A product \in Products :
              /\ Carried(product) = _realtime_position[product]
              /\ Carried(product) = LedgerQuantity(product)
    /\ pc = "run" =>
          \A product \in Products :
              position(state, product) = _realtime_position[product]

\* a sweep bought up to the limit over three ask levels, its orders are
\* recorded, and a later tick, with KELP in its frame, is recorded too
C13_Witness ==
    /\ pc = "loop"
    /\ Len(all_orders_placed) = 4
    /\ "SQUID_INK" \in DOMAIN all_orders_placed[3]
    /\ Len(all_orders_placed[3]["SQUID_INK"]) = 3
    /\ "KELP" \in DOMAIN current_position
    /\ Carried("SQUID_INK") = _position_limit["SQUID_INK"]

----------------------------------------------------------------------------
(* The sweep of ema_crossover *)

RECURSIVE ClaimedSweep(_, _, _)
\* the orders the claim gives for the ask levels asks (price to signed amount)
\* and the room to buy: lowest price first, each of min(room, size), none once
\* the room is 0
ClaimedSweep(product, asks, room) ==
    IF DOMAIN asks = {} \/ room = 0 THEN <<>>
    ELSE LET price == CHOOSE p \in DOMAIN asks : \A q \in DOMAIN asks : p <= q
             size == IF asks[price] < 0 THEN -asks[price] ELSE asks[price]
             quantity == IF room <= size THEN room ELSE size
         IN  <<[symbol |-> product, price |-> price, quantity |-> quantity]>>
             \o ClaimedSweep(product, [q \in DOMAIN asks \ {price} |-> asks[q]],
                             room - quantity)

\* the tick being recorded held SQUID_INK and its EMAs crossed upwards
CrossedUp ==
    /\ pc = "record"
    /\ "SQUID_INK" \in DOMAIN orders_dict
    /\ Len(ema_mid_35["SQUID_INK"]) >= 2
    /\ EmaGE(ema_mid_35["SQUID_INK"][Len(ema_mid_35["SQUID_INK"])],
             ema_mid_100["SQUID_INK"][Len(ema_mid_100["SQUID_INK"])])
    /\ EmaLT(ema_mid_35["SQUID_INK"][Len(ema_mid_35["SQUID_INK"]) - 1],
             ema_mid_100["SQUID_INK"][Len(ema_mid_100["SQUID_INK"]) - 1])

\* the room to buy SQUID_INK when the strategies of the tick started
RoomAtStart == _position_limit["SQUID_INK"] - state.position["SQUID_INK"]

\* C14: on an upward cross ema_crossover emits buy orders at the ask levels in
\* ascending price order, each of min(remaining room, size of the level), and
\* stops when the room is exhausted or the levels run out: no order is emitted
\* once the remaining room is 0.
C14_SweepStopsAtZeroRoom ==
    CrossedUp =>
        orders_dict["SQUID_INK"]
            = ClaimedSweep("SQUID_INK", state.order_depths["SQUID_INK"].sell_orders,
                           RoomAtStart)

\* what the sweep does: the orders of the claim, then one order of quantity 0
\* at every ask level left when the room ran out
C14_SweepWithEmptyOrders ==
    CrossedUp =>
        LET emitted == orders_dict["SQUID_INK"]
            claimed == ClaimedSweep("SQUID_INK",
                                    state.order_depths["SQUID_INK"].sell_orders,
                                    RoomAtStart)
        IN  /\ Len(emitted) = Cardinality(DOMAIN state.order_depths["SQUID_INK"].sell_orders)
            /\ Len(claimed) <= Len(emitted)
            /\ \A i \in 1..Len(claimed) : emitted[i] = claimed[i]
            /\ \A i \in (Len(claimed) + 1)..Len(emitted) : emitted[i].quantity = 0
            /\ \A i \in 1..(Len(emitted) - 1) : emitted[i].price < emitted[i + 1].price

----------------------------------------------------------------------------
(* The levels cls_update records *)

\* the k-th highest and the k-th lowest price of a set with at least k prices
KthHighest(prices, k) == CHOOSE p \in prices : Cardinality({q \in prices : q > p}) = k - 1
KthLowest(prices, k) == CHOOSE p \in prices : Cardinality({q \in prices : q < p}) = k - 1

\* the element the last cls_update appended to a series
Appended(product, type, k) ==
    _hist_order_depths[product][<<type, k>>][Len(_hist_order_depths[product][<<type, k>>])]

\* C16: for every product of the frame, cls_update appends to bid level k
\* (k = 1..3) the k-th highest bid price and its quantity, to ask level k the
\* k-th lowest ask price and its negative quantity; the levels after the 3rd
\* are dropped; a level the side does not have gets the absent marker as
\* price and as quantity, never a price or a 0.
C16_LevelsRecorded ==
    ~_state.isNone =>
      \A product \in DOMAIN _state.order_depths : \A k \in 1..3 :
        LET bids == _state.order_depths[product].buy_orders
            asks == _state.order_depths[product].sell_orders
        IN  /\ IF k <= Cardinality(DOMAIN bids)
               THEN /\ Appended(product, "bidprc", k) = <<KthHighest(DOMAIN bids, k)>>
                    /\ Appended(product, "bidamt", k) = <<bids[KthHighest(DOMAIN bids, k)]>>
               ELSE /\ Appended(product, "bidprc", k) = <<>>
                    /\ Appended(product, "bidamt", k) = <<>>
            /\ IF k <= Cardinality(DOMAIN asks)
               THEN /\ Appended(product, "askprc", k) = <<KthLowest(DOMAIN asks, k)>>
                    /\ Appended(product, "askamt", k) = <<asks[KthLowest(DOMAIN asks, k)]>>
                    /\ asks[KthLowest(DOMAIN asks, k)] < 0
               ELSE /\ Appended(product, "askprc", k) = <<>>
                    /\ Appended(product, "askamt", k) = <<>>
            /\ DOMAIN _hist_order_depths[product] = {"bidprc", "bidamt", "askprc", "askamt"} \X (1..3)

\* the last frame held a book of 2 bids and 4 asks for SQUID_INK and a book
\* without bids for KELP, and a frame had been recorded before it
C16_Witness ==
    /\ ~_state.isNone
    /\ DOMAIN _state.order_depths = {"SQUID_INK", "KELP"}
    /\ Cardinality(DOMAIN _state.order_depths["SQUID_INK"].buy_orders) = 2
    /\ Cardinality(DOMAIN _state.order_depths["SQUID_INK"].sell_orders) = 4
    /\ DOMAIN _state.order_depths["KELP"].buy_orders = {}
    /\ Len(_hist_order_depths["SQUID_INK"][<<"askprc", 3>>]) = 2
    /\ Appended("SQUID_INK", "askprc", 3) = <<13>>
    /\ Appended("SQUID_INK", "bidprc", 3) = <<>>

----------------------------------------------------------------------------
(* The strategies and the tracker *)

\* the step is a call of one of the three strategies on the instance of product
StrategyStep(product) ==
    \/ Strategy_ema_crossover(product)
    \/ \E window \in BandWindows : Strategy_bollinger_band(product, window)
    \/ Strategy_something(product)

\* the realtime position and the position of the feed are within the limit
WithinLimit(product) ==
    LET limit == _position_limit[product]
        authoritative == IF product \in DOMAIN _state.position
                         THEN _state.position[product] ELSE 0
    IN  /\ -limit <= _realtime_position[product] /\ _realtime_position[product] <= limit
        /\ -limit <= authoritative /\ authoritative <= limit

\* what the claim says of the step of a strategy: no update is rejected; the
\* orders returned are sized to the room left when each was emitted, and the
\* realtime position has moved by each of them in turn
C15_Outcome(product) ==
    LET limit == _position_limit[product]
        authoritative == IF product \in DOMAIN _state.position
                         THEN _state.position[product] ELSE 0
        orders == ret'.val
        quantity == [i \in 1..Len(orders) |-> orders[i].quantity]
        at(i) == _realtime_position[product] + SumOver(1..i, quantity)
        room_to_buy(i) == IF at(i - 1) >= authoritative
                          THEN limit - at(i - 1) ELSE limit - authoritative
        room_to_sell(i) == IF at(i - 1) <= authoritative
                           THEN limit + at(i - 1) ELSE limit + authoritative
    IN  /\ ret'.exc # "ValueError"
        /\ ret'.exc # "" => _realtime_position' = _realtime_position
        /\ ret'.exc = "" =>
              /\ \A i \in 1..Len(orders) :
                    /\ orders[i].symbol = product
                    /\ quantity[i] >= 0 => quantity[i] <= room_to_buy(i)
                    /\ quantity[i] <= 0 => -quantity[i] <= room_to_sell(i)
                    /\ -limit <= at(i) /\ at(i) <= limit
              /\ _realtime_position'[product] = at(Len(orders))
              /\ \A other \in Products \ {product} :
                    _realtime_position'[other] = _realtime_position[other]

\* C15: a call of ema_crossover, bollinger_band or something in a state where
\* the realtime position and the position of the feed are within the limit
\* makes one rt_position_update per order it emits, for the position after that
\* order, and none is rejected: a buy is of 0 up to the room to buy when it is
\* emitted, a sell of 0 up to the room to sell.
C15_UpdatesNeverRejected ==
    [][\A product \in Products :
          (WithinLimit(product) /\ StrategyStep(product)) => C15_Outcome(product)]_vars

\* C15 without its premise: it fails when the feed reports a position beyond
\* the limit
C15_AlsoBeyondLimit ==
    [][\A product \in Products : StrategyStep(product) => C15_Outcome(product)]_vars

\* after three ticks and three updates of the EMAs a strategy sold SQUID_INK
\* down to the limit, a position the tracker and the feed disagree on
C15_Witness ==
    /\ ret.exc = ""
    /\ Len(ret.val) = 1
    /\ ret.val[1].quantity < 0
    /\ Len(ema_mid_35["SQUID_INK"]) = 3
    /\ _realtime_position["SQUID_INK"] = -_position_limit["SQUID_INK"]
    /\ "SQUID_INK" \in DOMAIN _state.position
    /\ _state.position["SQUID_INK"] = 40

\* a sweep of ema_crossover emitted four orders, the last of them empty
C15_SweepWitness ==
    /\ ret.exc = ""
    /\ Len(ret.val) = 3
    /\ ret.val[1].quantity > 0
    /\ ret.val[3].quantity = 0
    /\ _realtime_position["SQUID_INK"] = _position_limit["SQUID_INK"]

====
